---------------------------- MODULE Spec2Model ----------------------------
(***************************************************************************)
(* Bank-statement analyzer: the deterministic core that runs after the     *)
(* language model has returned a transaction ledger, and the App that      *)
(* drives it.                                                               *)
(*                                                                         *)
(*   App: handleAnalyze, timers, file input, API-key modal                 *)
(*                        src/unnamed/part_000               546-884        *)
(*   error mapping        src/unnamed/part_003               167-178        *)
(*   dashboard            src/unnamed/part_007               71-179         *)
(*   aggregation          src/components/ResultsDisplay.tsx  48-88          *)
(*   filter / sort / totals                                  90-137         *)
(*   balance verification                                    139-147        *)
(*   click-to-sort                                           160-167        *)
(*   reconciliation       types only (src/App.tsx 708-721); the function   *)
(*                        itself is modelled from spec.md section 4.3       *)
(*                                                                         *)
(* Strings are sequences of one-character strings, so that toLowerCase,    *)
(* trim, substring, includes, the date pattern and the template-literal    *)
(* key are computed character by character.  An amount is a script number, *)
(* an IEEE 754 double: the set of the binary positions of its magnitude    *)
(* and a sign, added and subtracted with rounding to nearest, ties to      *)
(* even, at 53 significant bits.  Counts are small whole numbers, which    *)
(* doubles hold exactly, and are kept as integers.                         *)
(***************************************************************************)
EXTENDS Integers, Sequences, FiniteSets, TLC

(***************************************************************************)
(* Numbers                                                                 *)
(*                                                                         *)
(* The magnitude of a number is the set of the exponents of the powers of  *)
(* two that add up to it: 5 is {0, 2}, 0.75 is {-1, -2}.  Exponents are    *)
(* not bounded (no statement amount comes near the ends of the range).     *)
(***************************************************************************)
\* significant bits of a double
Precision == 53

\* the highest position of a magnitude
Highest(S) == CHOOSE i \in S : \A j \in S : j <= i

RECURSIVE MagAdd(_, _)
\* exact sum of two magnitudes: the positions set in one only, plus the carries
MagAdd(S, T) ==
  IF T = {} THEN S
  ELSE MagAdd((S \ T) \cup (T \ S), {i + 1 : i \in S \cap T})

RECURSIVE MagSub(_, _)
\* exact difference of two magnitudes, S not below T: less the borrows
MagSub(S, T) ==
  IF T = {} THEN S
  ELSE MagSub((S \ T) \cup (T \ S), {i + 1 : i \in T \ S})

\* S < T: the highest position they differ in is set in T
MagLess(S, T) ==
  LET d == (S \ T) \cup (T \ S)
  IN  d # {} /\ Highest(d) \in T

\* rounding to Precision significant bits, to nearest, ties to even
RoundMag(S) ==
  IF S = {} THEN S
  ELSE LET cut  == Highest(S) - Precision + 1
           kept == {i \in S : i >= cut}
           up   == /\ (cut - 1) \in S
                   /\ (cut \in S \/ \E i \in S : i < cut - 1)
       IN  IF up THEN MagAdd(kept, {cut}) ELSE kept

\* a number; zero has no sign
Number(neg, bits) == [neg |-> neg /\ bits # {}, bits |-> bits]

Zero == Number(FALSE, {})

\* unary -
Negate(a) == Number(~a.neg, a.bits)

\* a + b
Plus(a, b) ==
  IF a.neg = b.neg THEN Number(a.neg, RoundMag(MagAdd(a.bits, b.bits)))
  ELSE IF MagLess(a.bits, b.bits)
    THEN Number(b.neg, RoundMag(MagSub(b.bits, a.bits)))
  ELSE Number(a.neg, RoundMag(MagSub(a.bits, b.bits)))

\* a - b
Minus(a, b) == Plus(a, Negate(b))

\* a < b
Less(a, b) ==
  IF a.neg # b.neg THEN a.neg
  ELSE IF a.neg THEN MagLess(b.bits, a.bits)
  ELSE MagLess(a.bits, b.bits)

\* Math.abs
Abs(a) == Number(FALSE, a.bits)

RECURSIVE Remainders(_, _)
\* <<r[1], ..., r[n]>>, r[k] the remainder of h * 2^k by 200
Remainders(h, n) ==
  IF n = 0 THEN <<>>
  ELSE LET prev == Remainders(h, n - 1)
           last == IF n = 1 THEN h ELSE prev[n - 1]
       IN  Append(prev, (2 * last) % 200)

\* binary places of h / 200 that are worked out: a fraction of at least 1/200
\* starts within 8 places, then come the significant bits and the rounding bit
FractionDepth == Precision + 11

\* the number a decimal literal of the reply parses to: whole currency units
\* plus h steps of 0.005 (0 <= h < 200), rounded to the nearest double.  The
\* places beyond FractionDepth count only as being zero or not.
Money(whole, h) ==
  LET r    == <<h>> \o Remainders(h, FractionDepth)
      int  == {i \in 0..30 : (whole \div (2 ^ i)) % 2 = 1}
      frac == {-k : k \in {j \in 1..FractionDepth : 2 * r[j] >= 200}}
      rest == IF r[FractionDepth + 1] # 0 THEN {-FractionDepth - 1} ELSE {}
  IN  Number(FALSE, RoundMag(int \cup frac \cup rest))

\* the literal 0.01 of Math.abs(difference) < 0.01
Tolerance == Money(0, 2)

(***************************************************************************)
(* Strings                                                                 *)
(***************************************************************************)
Upper == <<"A","B","C","D","E","F","G","H","I","J","K","L","M",
           "N","O","P","Q","R","S","T","U","V","W","X","Y","Z">>
Lower == <<"a","b","c","d","e","f","g","h","i","j","k","l","m",
           "n","o","p","q","r","s","t","u","v","w","x","y","z">>
Digits == {"0","1","2","3","4","5","6","7","8","9"}
WhiteSpace == {" ", "\t", "\n", "\r"}

\* String.prototype.toLowerCase, one character
LowerChar(c) ==
  IF \E i \in 1..26 : Upper[i] = c
    THEN Lower[CHOOSE i \in 1..26 : Upper[i] = c]
    ELSE c

\* String.prototype.toLowerCase
ToLowerCase(s) == [i \in 1..Len(s) |-> LowerChar(s[i])]

\* String.prototype.substring(a, b), zero-based, b exclusive, clamped
Substring(s, a, b) ==
  LET hi == IF b > Len(s) THEN Len(s) ELSE b
  IN  IF a >= hi THEN <<>> ELSE SubSeq(s, a + 1, hi)

\* String.prototype.includes
Includes(s, q) ==
  \E i \in 0..(Len(s) - Len(q)) : SubSeq(s, i + 1, i + Len(q)) = q

\* String.prototype.trim
Trim(s) ==
  LET keep == {i \in 1..Len(s) : s[i] \notin WhiteSpace}
  IN  IF keep = {} THEN <<>>
      ELSE LET lo == CHOOSE i \in keep : \A j \in keep : i <= j
               hi == CHOOSE i \in keep : \A j \in keep : j <= i
           IN  SubSeq(s, lo, hi)

(***************************************************************************)
(* The values the language model's reply is drawn from                     *)
(***************************************************************************)
AcmeSp      == <<"A","c","m","e"," ">>
acme        == <<"a","c","m","e">>
constructor == <<"c","o","n","s","t","r","u","c","t","o","r">>

ClientNames == {AcmeSp, acme, constructor}

\* a client name that holds the separator of the trend key
acmePipe == <<"a","c","m","e","|","2","0","2","4","-","0","2">>

\* a date the reply leaves out (undefined in the script): no character string
Undefined == <<"undefined">>

Jan15     == <<"2","0","2","4","-","0","1","-","1","5">>
Jan31     == <<"2","0","2","4","-","0","1","-","3","1">>
Feb01     == <<"2","0","2","4","-","0","2","-","0","1">>
NotADate  == <<"n","o","t","-","a","-","d","a","t","e">>
Empty     == <<>>

Dates == {Jan15, Jan31, Feb01, NotADate, Empty, Undefined}

Amounts == {Zero, Money(200, 0), Money(500, 0)}

Types == {"credit", "debit"}

\* ClientTransaction (src/types.ts 6-11)
ClientTransaction ==
  [clientName : ClientNames, amount : Amounts, type : Types, date : Dates]

\* longest transaction list of a reply
MaxTx == 2

\* longest transaction list of a reply whose amounts have decimal places
MaxFractionTx == 3


(***************************************************************************)
(* Plain script objects used as maps                                       *)
(*                                                                         *)
(* summaryMap and trendMap are object literals {}: a sequence of own       *)
(* entries in insertion order (the order Object.values returns for keys    *)
(* that are not array indices; no name below is one).  A read m[k] of a    *)
(* key that is not an own entry falls through to Object.prototype.         *)
(***************************************************************************)
toString == <<"t","o","S","t","r","i","n","g">>
valueOf  == <<"v","a","l","u","e","O","f">>

\* property names every object literal inherits; each holds a function, which
\* is truthy
ObjectPrototypeKeys == {constructor, toString, valueOf}

\* position of the own entry for key k, 0 when there is none
OwnIndex(m, k) ==
  IF \E i \in 1..Len(m) : m[i].key = k
    THEN CHOOSE i \in 1..Len(m) : m[i].key = k
    ELSE 0

\* the truthiness of m[k], as tested by if (!m[k])
Truthy(m, k) == OwnIndex(m, k) # 0 \/ k \in ObjectPrototypeKeys

\* Object.values
ObjectValues(m) == [i \in 1..Len(m) |-> m[i].value]

(***************************************************************************)
(* Ordering                                                                *)
(***************************************************************************)
\* lexicographic comparison of two sequences of integers: -1, 0 or 1
SeqCompare(x, y) ==
  LET n == IF Len(x) < Len(y) THEN Len(x) ELSE Len(y)
      d == {i \in 1..n : x[i] # y[i]}
  IN  IF d = {}
        THEN (IF Len(x) < Len(y) THEN -1 ELSE IF Len(x) > Len(y) THEN 1 ELSE 0)
        ELSE LET i == CHOOSE k \in d : \A j \in d : k <= j
             IN  IF x[i] < y[i] THEN -1 ELSE 1

\* the characters of the model in collation order (white space and
\* punctuation, digits, letters)
CollationOrder ==
  <<" ", "-", "|", "0","1","2","3","4","5","6","7","8","9">> \o Lower

\* primary collation weight of a character: case is ignored
PrimaryWeight(c) ==
  LET lc == LowerChar(c)
  IN  IF \E i \in 1..Len(CollationOrder) : CollationOrder[i] = lc
        THEN CHOOSE i \in 1..Len(CollationOrder) : CollationOrder[i] = lc
        ELSE 0

\* tertiary weight: lower case before upper case
CaseWeight(c) == IF \E i \in 1..26 : Upper[i] = c THEN 1 ELSE 0

\* String.prototype.localeCompare with the default collation: letters first
\* compared without case, case breaking ties
LocaleCompare(a, b) ==
  LET p == SeqCompare([i \in 1..Len(a) |-> PrimaryWeight(a[i])],
                      [i \in 1..Len(b) |-> PrimaryWeight(b[i])])
  IN  IF p # 0 THEN p
      ELSE SeqCompare([i \in 1..Len(a) |-> CaseWeight(a[i])],
                      [i \in 1..Len(b) |-> CaseWeight(b[i])])

\* a sort that puts the later of two equal elements first
SortTiesReversed(s, cmp) ==
  LET rank(i) == 1 + Cardinality({j \in 1..Len(s) :
                        \/ cmp[j][i] < 0
                        \/ cmp[j][i] = 0 /\ j > i})
  IN  [r \in 1..Len(s) |-> s[CHOOSE i \in 1..Len(s) : rank(i) = r]]

\* Array.prototype.sort of s, given cmp[i][j], the comparator's result on
\* (s[i], s[j]).  The sort is stable and the comparator consistent, so element
\* i goes after every element that compares lower and every equal one before it
StableSort(s, cmp) ==
  LET rank(i) == 1 + Cardinality({j \in 1..Len(s) :
                        \/ cmp[j][i] < 0
                        \/ cmp[j][i] = 0 /\ j < i})
  IN  [r \in 1..Len(s) |-> s[CHOOSE i \in 1..Len(s) : rank(i) = r]]

(***************************************************************************)
(* Aggregation (the clientSummaries / monthlyTrends useMemo)               *)
(***************************************************************************)
NewSummary(name) ==
  [clientName |-> name, totalCredit |-> Zero, creditCount |-> 0,
   totalDebit |-> Zero, debitCount |-> 0, netTotal |-> Zero]

\* the accumulation on one summary row, netTotal recomputed every time
AddToSummary(s, t) ==
  LET u == IF t.type = "credit"
             THEN [s EXCEPT !.totalCredit = Plus(@, t.amount), !.creditCount = @ + 1]
             ELSE [s EXCEPT !.totalDebit = Plus(@, t.amount), !.debitCount = @ + 1]
  IN  [u EXCEPT !.netTotal = Minus(u.totalCredit, u.totalDebit)]

\* one pass of the first loop.  When the name is an inherited property the
\* row is not created and the additions land on the inherited function
\* object: summaryMap gets no own entry.
SummaryStep(m, t) ==
  LET m1 == IF ~Truthy(m, t.clientName)
              THEN Append(m, [key |-> t.clientName, value |-> NewSummary(t.clientName)])
              ELSE m
      i  == OwnIndex(m1, t.clientName)
  IN  IF i = 0 THEN m1
      ELSE [m1 EXCEPT ![i].value = AddToSummary(@, t)]

RECURSIVE SummaryMap(_)
SummaryMap(ts) ==
  IF ts = <<>> THEN <<>>
  ELSE SummaryStep(SummaryMap(SubSeq(ts, 1, Len(ts) - 1)), ts[Len(ts)])

CompareClientName(a, b) == LocaleCompare(a.clientName, b.clientName)

\* the summaries as Object.values returns them
SummariesUnsorted(ts) == ObjectValues(SummaryMap(ts))

\* summaries: Object.values(summaryMap).sort(localeCompare on clientName)
Summaries(ts) ==
  LET rows == ObjectValues(SummaryMap(ts))
  IN  StableSort(rows, [i \in 1..Len(rows) |->
                         [j \in 1..Len(rows) |-> CompareClientName(rows[i], rows[j])]])

\* /^\d{4}-\d{2}-\d{2}$/.test(d)
MatchesDatePattern(d) ==
  /\ Len(d) = 10
  /\ \A i \in {1, 2, 3, 4, 6, 7, 9, 10} : d[i] \in Digits
  /\ d[5] = "-"
  /\ d[8] = "-"

\* the guard of the second loop, negated: !t.date is true of "" and undefined
HasValidDate(t) ==
  /\ t.date # Empty
  /\ t.date # Undefined
  /\ MatchesDatePattern(t.date)

\* t.date.substring(0, 7)
MonthOf(d) == Substring(d, 0, 7)

\* a key that leaves the month out
TrendKeyNameOnly(name, month) == name

\* `${t.clientName}|${month}`
TrendKey(name, month) == name \o <<"|">> \o month

NewTrend(name, month) ==
  [clientName |-> name, month |-> month, totalCredit |-> Zero,
   totalDebit |-> Zero, netChange |-> Zero]

AddToTrend(r, t) ==
  LET u == IF t.type = "credit"
             THEN [r EXCEPT !.totalCredit = Plus(@, t.amount)]
             ELSE [r EXCEPT !.totalDebit = Plus(@, t.amount)]
  IN  [u EXCEPT !.netChange = Minus(u.totalCredit, u.totalDebit)]

\* one pass of the second loop
TrendStep(m, t) ==
  IF ~HasValidDate(t) THEN m
  ELSE LET month == MonthOf(t.date)
           key   == TrendKey(t.clientName, month)
           m1    == IF ~Truthy(m, key)
                      THEN Append(m, [key |-> key, value |-> NewTrend(t.clientName, month)])
                      ELSE m
           i     == OwnIndex(m1, key)
       IN  IF i = 0 THEN m1
           ELSE [m1 EXCEPT ![i].value = AddToTrend(@, t)]

RECURSIVE TrendMap(_)
TrendMap(ts) ==
  IF ts = <<>> THEN <<>>
  ELSE TrendStep(TrendMap(SubSeq(ts, 1, Len(ts) - 1)), ts[Len(ts)])

\* trends: Object.values(trendMap), in insertion order
Trends(ts) == ObjectValues(TrendMap(ts))

(***************************************************************************)
(* The dashboard's aggregation (the dashboardData useMemo of DashboardView) *)
(***************************************************************************)
\* the accumulation on one summary row, netTotal left alone
DashboardAddToSummary(s, t) ==
  IF t.type = "credit"
    THEN [s EXCEPT !.totalCredit = Plus(@, t.amount), !.creditCount = @ + 1]
    ELSE [s EXCEPT !.totalDebit = Plus(@, t.amount), !.debitCount = @ + 1]

\* the summary part of one pass of the loop; summaryMap is an object literal
\* here as well
DashboardSummaryStep(m, t) ==
  LET m1 == IF ~Truthy(m, t.clientName)
              THEN Append(m, [key |-> t.clientName, value |-> NewSummary(t.clientName)])
              ELSE m
      i  == OwnIndex(m1, t.clientName)
  IN  IF i = 0 THEN m1
      ELSE [m1 EXCEPT ![i].value = DashboardAddToSummary(@, t)]

RECURSIVE DashboardSummaryMap(_)
DashboardSummaryMap(ts) ==
  IF ts = <<>> THEN <<>>
  ELSE DashboardSummaryStep(DashboardSummaryMap(SubSeq(ts, 1, Len(ts) - 1)),
                            ts[Len(ts)])

\* clientSummaries of the dashboard: Object.values(summaryMap) after the pass
\* that sets netTotal, in insertion order
DashboardSummaries(ts) ==
  LET rows == ObjectValues(DashboardSummaryMap(ts))
  IN  [i \in 1..Len(rows) |->
         [rows[i] EXCEPT !.netTotal = Minus(rows[i].totalCredit, rows[i].totalDebit)]]

RECURSIVE DashboardTotals(_)
\* the four totals the loop accumulates directly from the transactions
DashboardTotals(ts) ==
  IF ts = <<>>
    THEN [totalCreditAmount |-> Zero, totalDebitAmount |-> Zero,
          totalCreditCount |-> 0, totalDebitCount |-> 0]
    ELSE LET d == DashboardTotals(SubSeq(ts, 1, Len(ts) - 1))
             t == ts[Len(ts)]
         IN  IF t.type = "credit"
               THEN [d EXCEPT !.totalCreditAmount = Plus(@, t.amount),
                              !.totalCreditCount = @ + 1]
               ELSE [d EXCEPT !.totalDebitAmount = Plus(@, t.amount),
                              !.totalDebitCount = @ + 1]

(***************************************************************************)
(* Query layer and balance verification                                    *)
(***************************************************************************)
RECURSIVE SumOf(_, _)
\* items.reduce((acc, x) => acc + x[field], 0), field an amount
SumOf(items, field) ==
  IF Len(items) = 0 THEN Zero
  ELSE Plus(SumOf(SubSeq(items, 1, Len(items) - 1), field), items[Len(items)][field])

RECURSIVE SumOfCounts(_, _)
\* items.reduce((acc, x) => acc + x[field], 0), field a count
SumOfCounts(items, field) ==
  IF Len(items) = 0 THEN 0
  ELSE SumOfCounts(SubSeq(items, 1, Len(items) - 1), field) + items[Len(items)][field]

\* a filter that compares the characters as they are
FilterCaseSensitive(items, query) ==
  IF query = <<>> THEN items
  ELSE SelectSeq(items, LAMBDA x : Includes(x.clientName, query))

\* filteredClientSummaries / filteredMonthlyTrends: !searchQuery is true of ""
FilterByClientName(items, query) ==
  IF query = <<>> THEN items
  ELSE SelectSeq(items,
         LAMBDA x : Includes(ToLowerCase(x.clientName), ToLowerCase(query)))

\* fullGrandTotals: over every summary
FullGrandTotals(summaries) ==
  [totalCredit |-> SumOf(summaries, "totalCredit"),
   totalDebit  |-> SumOf(summaries, "totalDebit")]

\* filteredGrandTotals: over the summaries that passed the filter
FilteredGrandTotals(filtered) ==
  [totalCredit |-> SumOf(filtered, "totalCredit"),
   creditCount |-> SumOfCounts(filtered, "creditCount"),
   totalDebit  |-> SumOf(filtered, "totalDebit"),
   debitCount  |-> SumOfCounts(filtered, "debitCount"),
   netTotal    |-> SumOf(filtered, "netTotal")]

\* the verification with the tolerance itself counted as a match
VerifyBalanceInclusive(result, totals) ==
  LET calculatedClosing == Minus(Plus(result.openingBalance, totals.totalCredit),
                                 totals.totalDebit)
      difference        == Minus(calculatedClosing, result.closingBalance)
  IN  [calculatedClosing |-> calculatedClosing,
       difference        |-> difference,
       isMatch           |-> ~Less(Tolerance, Abs(difference))]

\* the body of the balanceVerification useMemo once analysisResult is set
VerifyBalance(result, totals) ==
  LET calculatedClosing == Minus(Plus(result.openingBalance, totals.totalCredit),
                                 totals.totalDebit)
      difference        == Minus(calculatedClosing, result.closingBalance)
  IN  [calculatedClosing |-> calculatedClosing,
       difference        |-> difference,
       isMatch           |-> Less(Abs(difference), Tolerance)]

\* the characters of the model in code-unit order, for < and > on strings
CodeUnitOrder ==
  <<" ", "-", "0","1","2","3","4","5","6","7","8","9">> \o Upper \o Lower \o <<"|">>

CodeUnit(c) ==
  IF \E i \in 1..Len(CodeUnitOrder) : CodeUnitOrder[i] = c
    THEN CHOOSE i \in 1..Len(CodeUnitOrder) : CodeUnitOrder[i] = c
    ELSE 0

StringKeys == {"clientName", "month"}
SortKeys   == {"clientName", "month", "totalCredit", "totalDebit", "netChange"}

\* a[key] < b[key]: by code units for the two string columns, numeric otherwise
FieldLess(a, b, key) ==
  IF key \in StringKeys
    THEN SeqCompare([i \in 1..Len(a[key]) |-> CodeUnit(a[key][i])],
                    [i \in 1..Len(b[key]) |-> CodeUnit(b[key][i])]) < 0
    ELSE Less(a[key], b[key])

\* a comparator that takes every direction for ascending
CompareTrendsAscending(a, b, config) ==
  IF FieldLess(a, b, config.key) THEN -1
  ELSE IF FieldLess(b, a, config.key) THEN 1
  ELSE 0

\* the comparator of sortedMonthlyTrends
CompareTrends(a, b, config) ==
  IF FieldLess(a, b, config.key)
    THEN (IF config.direction = "ascending" THEN -1 ELSE 1)
  ELSE IF FieldLess(b, a, config.key)
    THEN (IF config.direction = "ascending" THEN 1 ELSE -1)
  ELSE 0

\* the null of a state that holds a record
Null == [null |-> TRUE]

\* sortedMonthlyTrends: a sorted copy of the filtered trends
SortTrends(filtered, config) ==
  IF config = Null THEN filtered
  ELSE StableSort(filtered, [i \in 1..Len(filtered) |->
                              [j \in 1..Len(filtered) |->
                                 CompareTrends(filtered[i], filtered[j], config)]])

\* a direction that flips on every click, whichever key is clicked
NextDirectionFlipped(config, key) ==
  IF config # Null /\ config.direction = "ascending"
    THEN "descending"
    ELSE "ascending"

\* the direction requestSort(key) chooses
NextDirection(config, key) ==
  IF config # Null /\ config.key = key /\ config.direction = "ascending"
    THEN "descending"
    ELSE "ascending"

\* useState initial value of sortConfig
InitialSortConfig == [key |-> "month", direction |-> "descending"]

(***************************************************************************)
(* Payment reconciliation (spec.md 4.3; the types are src/App.tsx 708-721) *)
(***************************************************************************)
ACME  == <<"A","C","M","E">>
Ghost == <<"G","h","o","s","t">>

ExpectedAmounts == {Money(0, 1), Money(700, 0), Money(1000, 0), Money(1000, 1),
                    Money(1500, 0)}

\* ExpectedPayment: clientName, amount and one more column of the sheet;
\* "ACME" is expected with every amount, "Ghost", which no statement names,
\* with one
ExpectedPayment ==
  [clientName : {ACME}, amount : ExpectedAmounts, dueDate : {"2024-03-01"}]
    \cup [clientName : {Ghost}, amount : {Money(700, 0)}, dueDate : {"2024-03-01"}]

\* rows of sheets with different columns: none beyond clientName and amount,
\* a due date, a due date and a note, and a column that is itself called
\* "status"
SheetPayments ==
  {[clientName |-> ACME, amount |-> Money(1000, 0)],
   [clientName |-> ACME, amount |-> Money(1000, 0), dueDate |-> "2024-03-01"],
   [clientName |-> Ghost, amount |-> Money(700, 0), dueDate |-> "2024-04-01",
    note |-> "second reminder"],
   [clientName |-> ACME, amount |-> Money(1500, 0), status |-> "Overdue"]}

\* longest expected-payments list
MaxExpected == 2

\* a lookup key that keeps outer white space
NormalizeNameUntrimmed(name) == ToLowerCase(name)

\* the lookup key: lower-cased, trimmed
NormalizeName(name) == Trim(ToLowerCase(name))

\* the lookup from normalized name to summary, built in the order of the
\* summaries (a later summary replaces an earlier one under the same key):
\* the position of the summary found for a name, 0 when there is none
MatchIndex(summaries, name) ==
  LET hits == {i \in 1..Len(summaries) :
                 NormalizeName(summaries[i].clientName) = NormalizeName(name)}
  IN  IF hits = {} THEN 0
      ELSE CHOOSE i \in hits : \A j \in hits : j <= i

\* a paidAmount that nets the debits off
PaidAmountNet(summaries, name) ==
  LET i == MatchIndex(summaries, name)
  IN  IF i = 0 THEN Zero ELSE summaries[i].netTotal

\* paidAmount: the matching summary's totalCredit, else 0
PaidAmount(summaries, name) ==
  LET i == MatchIndex(summaries, name)
  IN  IF i = 0 THEN Zero ELSE summaries[i].totalCredit

\* the classification with the tolerance rule tried first
ClassifyPaymentPaidFirst(paid, expected) ==
  IF Less(Abs(Minus(paid, expected)), Tolerance) THEN "Paid"
  ELSE IF paid = Zero THEN "Not Paid"
  ELSE IF Less(Minus(paid, expected), Zero) THEN "Partial Payment"
  ELSE "Payment Exceeded"

\* status classification, first match wins
ClassifyPayment(paid, expected) ==
  IF paid = Zero THEN "Not Paid"
  ELSE IF Less(Abs(Minus(paid, expected)), Tolerance) THEN "Paid"
  ELSE IF Less(Minus(paid, expected), Zero) THEN "Partial Payment"
  ELSE "Payment Exceeded"

\* a passthrough that knows one column only, the due date
PassthroughDueDateOnly(e) ==
  [f \in (DOMAIN e \ {"clientName", "amount"}) \cap {"dueDate"} |-> e[f]]

\* the fields of an expected payment other than clientName and amount
Passthrough(e) == [f \in DOMAIN e \ {"clientName", "amount"} |-> e[f]]

\* a row whose difference is taken the other way round
ReconcileOneReversed(summaries, e) ==
  LET paid == PaidAmount(summaries, e.clientName)
  IN  [clientName     |-> e.clientName,
       expectedAmount |-> e.amount,
       paidAmount     |-> paid,
       status         |-> ClassifyPayment(paid, e.amount),
       difference     |-> Minus(e.amount, paid)] @@ Passthrough(e)

\* the PaymentStatus row of one expected payment
ReconcileOne(summaries, e) ==
  LET paid == PaidAmount(summaries, e.clientName)
  IN  [clientName     |-> e.clientName,
       expectedAmount |-> e.amount,
       paidAmount     |-> paid,
       status         |-> ClassifyPayment(paid, e.amount),
       difference     |-> Minus(paid, e.amount)] @@ Passthrough(e)

\* a reconcile that leaves out the payments no summary matches
ReconcileMatchedOnly(summaries, expected) ==
  LET kept == SelectSeq(expected, LAMBDA e : MatchIndex(summaries, e.clientName) # 0)
  IN  [i \in 1..Len(kept) |-> ReconcileOne(summaries, kept[i])]

\* reconcile(summaries, expected)
Reconcile(summaries, expected) ==
  [i \in 1..Len(expected) |-> ReconcileOne(summaries, expected[i])]

\* a list that may be absent: <<>> is null, <<l>> holds the list l
NoList == <<>>
Some(l) == <<l>>

\* a reconciliation that runs whenever there is an expected list
RunReconcileAnySummaries(summaries, expectedOpt) ==
  IF expectedOpt # NoList
    THEN Some(Reconcile(summaries, expectedOpt[1]))
    ELSE NoList

\* reconciliation runs only with an expected list and non-empty summaries
RunReconcile(summaries, expectedOpt) ==
  IF expectedOpt # NoList /\ Len(summaries) > 0
    THEN Some(Reconcile(summaries, expectedOpt[1]))
    ELSE NoList

\* DashboardView statusCounts: all zero without payment statuses
StatusCounts(statusesOpt) ==
  LET rows == IF statusesOpt = NoList THEN <<>> ELSE statusesOpt[1]
      Count(s) == Cardinality({i \in 1..Len(rows) : rows[i].status = s})
  IN  [paid     |-> Count("Paid"),
       notPaid  |-> Count("Not Paid"),
       partial  |-> Count("Partial Payment"),
       exceeded |-> Count("Payment Exceeded"),
       total    |-> Len(rows)]

\* DashboardView filteredPaymentStatuses: null without payment statuses
FilteredPaymentStatuses(statusesOpt, statusFilter) ==
  IF statusesOpt = NoList THEN NoList
  ELSE IF statusFilter = "All" THEN statusesOpt
  ELSE Some(SelectSeq(statusesOpt[1], LAMBDA s : s.status = statusFilter))

(***************************************************************************)
(* State                                                                   *)
(***************************************************************************)
VARIABLES
  reply,             \* the transactions the language model has put in its reply so far
  analysisResult,    \* App state: AnalysisResult or Null
  clientSummaries,   \* ResultsDisplay memo over analysisResult
  monthlyTrends,     \* ResultsDisplay memo over analysisResult
  searchQuery,       \* ResultsDisplay state
  sortConfig,        \* ResultsDisplay state
  expectedPayments,  \* the uploaded expected-payments list, or NoList
  paymentStatuses    \* the reconciliation result, or NoList

VARIABLES
  statementText,     \* App state: the text of the statement
  apiKey,            \* App state: the saved key, '' when there is none
  isApiKeyModalOpen, \* App state
  apiKeyError,       \* App state: a message or Null
  error,             \* App state: a message or Null
  isLoading,         \* App state
  progress,          \* App state: { step, total } or Null
  isParsingFile,     \* App state
  fileName,          \* App state: a name or Null
  pc,                \* where the running handleAnalyze stands, or "idle"
  timers,            \* the pending simulated-progress callbacks, per step they set
  parses,            \* the file parses that have not completed yet
  earlier,           \* history: the result the last started analysis replaced
  cleared            \* history: clearFile ran and no text, file or analysis came after

appVars == <<statementText, apiKey, isApiKeyModalOpen, apiKeyError, error,
             isLoading, progress, isParsingFile, fileName, pc, timers, parses,
             earlier, cleared>>

vars == <<reply, analysisResult, clientSummaries, monthlyTrends, searchQuery,
          sortConfig, expectedPayments, paymentStatuses, appVars>>

\* the derived values of a render
filteredClientSummaries == FilterByClientName(clientSummaries, searchQuery)
filteredMonthlyTrends   == FilterByClientName(monthlyTrends, searchQuery)
sortedMonthlyTrends     == SortTrends(filteredMonthlyTrends, sortConfig)

\* the displayed totals taken over every summary
grandTotalsOfAll == FilteredGrandTotals(clientSummaries)

filteredGrandTotals     == FilteredGrandTotals(filteredClientSummaries)

\* the grand totals taken over the filtered summaries
fullGrandTotalsOfFiltered == FullGrandTotals(filteredClientSummaries)

fullGrandTotals         == FullGrandTotals(clientSummaries)

\* a verification that is also withheld while there are no summaries
balanceVerificationIfSummaries ==
  IF analysisResult = Null \/ Len(clientSummaries) = 0 THEN Null
  ELSE VerifyBalance(analysisResult, fullGrandTotals)

\* balanceVerification: null without an analysis result
balanceVerification ==
  IF analysisResult = Null THEN Null
  ELSE VerifyBalance(analysisResult, fullGrandTotals)

\* a string held by a state that may also hold null
Text(words) == [text |-> words]

\* the keys localStorage may hold at mount: none, or a saved one
NoKey     == <<>>
SavedKey  == <<"k">>

\* the simulated-progress callbacks set the steps 3, 4 and 5; TOTAL_STEPS is 7
TimerSteps == {3, 4, 5}
TotalSteps == 7
Step(n) == [step |-> n, total |-> TotalSteps]

\* most callbacks of one kind that are kept apart while pending; further
\* ones of the same kind are the same function of the state they find
MaxPending == 1

\* the App state after mount, with the key localStorage held
InitApp(storedKey) ==
  /\ statementText = <<>>
  /\ apiKey = storedKey
  /\ isApiKeyModalOpen = (storedKey = NoKey)
  /\ apiKeyError = Null
  /\ error = Null
  /\ isLoading = FALSE
  /\ progress = Null
  /\ isParsingFile = FALSE
  /\ fileName = Null
  /\ pc = "idle"
  /\ timers = [k \in TimerSteps |-> 0]
  /\ parses = 0
  /\ earlier = Null
  /\ cleared = FALSE

\* no result, and the state ResultsDisplay mounts with
InitResults ==
  /\ reply = <<>>
  /\ analysisResult = Null
  /\ clientSummaries = <<>>
  /\ monthlyTrends = <<>>
  /\ searchQuery = <<>>
  /\ sortConfig = InitialSortConfig
  /\ expectedPayments = NoList
  /\ paymentStatuses = NoList

Init ==
  /\ InitResults
  /\ InitApp(SavedKey)

\* the state after mount, whether or not localStorage held a key
InitMounted ==
  /\ InitResults
  /\ \E storedKey \in {NoKey, SavedKey} : InitApp(storedKey)

(***************************************************************************)
(* Inputs                                                                  *)
(***************************************************************************)
OpeningBalances == {Money(1000, 0)}

\* the balances of the runs on the verification: closing balances on both
\* sides of the tolerance around 1300, and an opening balance of 0.01 with a
\* closing balance of 0, whose difference is the tolerance itself
BalanceOpenings == OpeningBalances \cup {Tolerance}
ClosingBalances == {Zero, Money(1250, 0), Money(1299, 198), Money(1299, 199),
                    Money(1300, 0), Money(1300, 1)}

abc == <<"a","c">>
eSp == <<"E"," ">>
zzz == <<"z">>
SearchQueries == {<<>>, abc, eSp, zzz}

\* the transactions that vary the amount on one date
AmountTransactions ==
  [clientName : ClientNames, amount : Amounts, type : Types, date : {Jan15}]

\* the transactions that vary the date on one amount
DateTransactions ==
  [clientName : ClientNames \cup {acmePipe}, amount : {Money(500, 0)}, type : Types, date : Dates]

\* 0.10, 0.20 and 0.30: amounts in cents, none of them a binary fraction
FractionAmounts == {Money(0, 20), Money(0, 40), Money(0, 60)}

\* the transactions that carry amounts with decimal places
FractionTransactions ==
  [clientName : {acme, AcmeSp}, amount : FractionAmounts, type : Types,
   date : {Jan15}]

\* the transactions of the runs that exercise the query layer: two clients
\* whose names differ in case and length, in two months
QueryTransactions ==
  [clientName : {AcmeSp, acme}, amount : {Money(500, 0)}, type : Types,
   date : {Jan15, Feb01}]

\* the transactions of the runs that exercise the reconciler
FewTransactions ==
  [clientName : ClientNames, amount : {Money(500, 0)}, type : Types, date : {Jan15}]

(***************************************************************************)
(* Actions                                                                 *)
(***************************************************************************)
\* the language model adds a transaction to the reply it is composing, a
\* reply of at most limit transactions
ComposeTransaction(t, limit) ==
  /\ analysisResult = Null
  /\ Len(reply) < limit
  /\ reply' = Append(reply, t)
  /\ UNCHANGED <<analysisResult, clientSummaries, monthlyTrends, searchQuery,
                 sortConfig, expectedPayments, paymentStatuses>>
  /\ UNCHANGED appVars

\* handleAnalyze, from the resolved model call on: setAnalysisResult(result),
\* ResultsDisplay mounts and runs its memos
ReceiveResult(opening, closing) ==
  /\ analysisResult = Null
  /\ analysisResult' = [transactions |-> reply, openingBalance |-> opening,
                        closingBalance |-> closing]
  /\ clientSummaries' = Summaries(reply)
  /\ monthlyTrends' = Trends(reply)
  /\ paymentStatuses' = RunReconcile(clientSummaries', expectedPayments)
  /\ UNCHANGED <<reply, searchQuery, sortConfig, expectedPayments>>
  /\ UNCHANGED appVars

\* handleAnalyze up to the model call: setAnalysisResult(null), which
\* unmounts ResultsDisplay and drops its state and memos
StartAnalysis ==
  /\ analysisResult # Null
  /\ analysisResult' = Null
  /\ reply' = <<>>
  /\ clientSummaries' = <<>>
  /\ monthlyTrends' = <<>>
  /\ searchQuery' = <<>>
  /\ sortConfig' = InitialSortConfig
  /\ paymentStatuses' = RunReconcile(clientSummaries', expectedPayments)
  /\ UNCHANGED expectedPayments
  /\ UNCHANGED appVars

\* the search box, rendered when the result has transactions
SetSearchQuery(q) ==
  /\ analysisResult # Null
  /\ Len(analysisResult.transactions) > 0
  /\ searchQuery' = q
  /\ UNCHANGED <<reply, analysisResult, clientSummaries, monthlyTrends,
                 sortConfig, expectedPayments, paymentStatuses>>
  /\ UNCHANGED appVars

\* a header whose third click takes the sort away
RequestSortThreeWay(key) ==
  /\ analysisResult # Null
  /\ Len(analysisResult.transactions) > 0
  /\ sortConfig' = IF sortConfig = [key |-> key, direction |-> "descending"]
                     THEN Null
                     ELSE [key |-> key, direction |-> NextDirection(sortConfig, key)]
  /\ UNCHANGED <<reply, analysisResult, clientSummaries, monthlyTrends,
                 searchQuery, expectedPayments, paymentStatuses>>
  /\ UNCHANGED appVars

\* requestSort(key), a click on a header of the trends table
RequestSort(key) ==
  /\ analysisResult # Null
  /\ Len(analysisResult.transactions) > 0
  /\ sortConfig' = [key |-> key, direction |-> NextDirection(sortConfig, key)]
  /\ UNCHANGED <<reply, analysisResult, clientSummaries, monthlyTrends,
                 searchQuery, expectedPayments, paymentStatuses>>
  /\ UNCHANGED appVars

\* an expected-payments sheet is loaded
LoadExpectedPayments(list) ==
  /\ expectedPayments = NoList
  /\ expectedPayments' = Some(list)
  /\ paymentStatuses' = RunReconcile(clientSummaries, expectedPayments')
  /\ UNCHANGED <<reply, analysisResult, clientSummaries, monthlyTrends,
                 searchQuery, sortConfig>>
  /\ UNCHANGED appVars

\* the expected-payments sheet is removed
ClearExpectedPayments ==
  /\ expectedPayments # NoList
  /\ expectedPayments' = NoList
  /\ paymentStatuses' = NoList
  /\ UNCHANGED <<reply, analysisResult, clientSummaries, monthlyTrends,
                 searchQuery, sortConfig>>
  /\ UNCHANGED appVars

\* the lists of expected payments of length at most MaxExpected
ExpectedLists ==
  UNION {[1..n -> ExpectedPayment] : n \in 0..MaxExpected}

\* the lists of sheet rows of length at most MaxExpected
SheetLists ==
  UNION {[1..n -> SheetPayments] : n \in 0..MaxExpected}

\* the transactions of the runs on sheets with different columns
SheetTransactions ==
  [clientName : {acme}, amount : {Money(500, 0)}, type : Types, date : {Jan15}]

(***************************************************************************)
(* The App: handleAnalyze await by await, its timers, the file input, the  *)
(* API-key modal (src/unnamed/part_000 546-884).  Messages are sequences   *)
(* of pieces of text, so that includes() has something to search.          *)
(***************************************************************************)
resultVars == <<analysisResult, clientSummaries, monthlyTrends, searchQuery,
                sortConfig, expectedPayments, paymentStatuses>>

\* setAnalysisResult(null): ResultsDisplay unmounts
DropResult ==
  /\ analysisResult' = Null
  /\ clientSummaries' = <<>>
  /\ monthlyTrends' = <<>>
  /\ searchQuery' = <<>>
  /\ sortConfig' = InitialSortConfig
  /\ paymentStatuses' = RunReconcile(clientSummaries', expectedPayments)
  /\ UNCHANGED expectedPayments

\* the texts of the statement box: empty, white space only, a statement
Blank     == <<" ">>
Statement == <<"s">>
StatementTexts == {<<>>, Blank, Statement}

\* the values typed into the key box of the modal
TypedKeys == {<<>>, Blank, SavedKey}

\* the replies of the language model to the App: no transaction, one client,
\* two clients
AppReplies ==
  {<<>>,
   <<[clientName |-> acme, amount |-> Money(500, 0), type |-> "credit", date |-> Jan15]>>,
   <<[clientName |-> acme, amount |-> Money(200, 0), type |-> "debit", date |-> Jan15],
     [clientName |-> AcmeSp, amount |-> Money(500, 0), type |-> "credit", date |-> Feb01]>>}

\* the aggregation memo of ResultsDisplay on each reply, worked out once
AggregationOf ==
  [ts \in AppReplies |-> [summaries |-> Summaries(ts), trends |-> Trends(ts)]]

\* a result shown on top of the one the analysis replaced
ShowResultOnTopOfEarlier(result) ==
  LET carried == IF earlier = Null THEN <<>> ELSE earlier.transactions
  IN  /\ analysisResult' = result
      /\ clientSummaries' = Summaries(carried \o result.transactions)
      /\ monthlyTrends' = Trends(carried \o result.transactions)
      /\ paymentStatuses' = RunReconcile(clientSummaries', expectedPayments)
      /\ UNCHANGED <<searchQuery, sortConfig, expectedPayments>>

\* setAnalysisResult(result): ResultsDisplay runs its memos on the result
ShowResult(result) ==
  /\ analysisResult' = result
  /\ clientSummaries' = AggregationOf[result.transactions].summaries
  /\ monthlyTrends' = AggregationOf[result.transactions].trends
  /\ paymentStatuses' = RunReconcile(clientSummaries', expectedPayments)
  /\ UNCHANGED <<searchQuery, sortConfig, expectedPayments>>

\* the balances the replies to the App state
AppOpening == Money(1000, 0)
AppClosing == Money(1300, 0)

\* the AnalysisResult parsed from a reply
AppResult(ts) ==
  [transactions |-> ts, openingBalance |-> AppOpening, closingBalance |-> AppClosing]

\* what the model call can throw inside analyzeStatement: a rejected key, a
\* reply that is not JSON, a network failure, a value that is not an Error
ApiKeyNotValid == <<"API key not valid">>
RawErrors ==
  {[isError |-> TRUE, isSyntaxError |-> FALSE,
    message |-> <<"[400] ", "API key not valid", ". Please pass a valid API key.">>],
   [isError |-> TRUE, isSyntaxError |-> TRUE, message |-> <<"Unexpected token">>],
   [isError |-> TRUE, isSyntaxError |-> FALSE, message |-> <<"fetch failed">>],
   [isError |-> FALSE, isSyntaxError |-> FALSE, message |-> <<>>]}

\* the catch block of analyzeStatement: the Error it throws on
AnalyzeStatementError(raw) ==
  LET errorMessage == IF raw.isError THEN raw.message
                      ELSE <<"An unknown error occurred.">>
  IN  [isError |-> TRUE,
       message |->
         IF Includes(errorMessage, ApiKeyNotValid)
           THEN ApiKeyNotValid \o <<". Please check your key and try again.">>
         ELSE IF \/ raw.isSyntaxError
                 \/ Includes(errorMessage, <<"json">>)
                 \/ Includes(errorMessage, <<"JSON">>)
           THEN <<"The AI returned an invalid format.">>
         ELSE <<"Failed to analyze statement: ">> \o errorMessage]

\* the messages handleAnalyze, handleFileChange and handleSaveApiKey set
PleaseProvide   == Text(<<"Please provide a bank statement.">>)
KeyNotSet       == Text(<<"Gemini API Key is not set. Please set it in the settings.">>)
NoTransactions  == Text(<<"No client transactions were identified in the provided text.">>)
KeyInvalid      == Text(<<"Your Gemini API key is invalid. Please correct it.">>)
UnknownError    == Text(<<"An unknown error occurred during analysis.">>)
KeyEmpty        == Text(<<"API Key cannot be empty.">>)
ParseFailed     == Text(<<"Failed to parse the file. Details: ", "Invalid PDF structure">>)
Unsupported     ==
  Text(<<"Failed to parse the file. Details: ",
         "Unsupported file type. Please upload a PDF, CSV, or Excel file.">>)
FileName        == Text(<<"statement.pdf">>)

\* onStatementChange; the box is read-only while a file is named
TypeText(text) ==
  /\ fileName = Null
  /\ statementText' = text
  /\ cleared' = FALSE
  /\ UNCHANGED <<reply, resultVars, apiKey, isApiKeyModalOpen, apiKeyError, error,
                 isLoading, progress, isParsingFile, fileName, pc, timers, parses,
                 earlier>>

\* handleFileChange up to its first await; a file of an unsupported type
\* fails before any await.  The input is rendered while no file is named.
HandleFileChange(supported) ==
  /\ fileName = Null
  /\ parses < MaxPending
  /\ statementText' = <<>>
  /\ DropResult
  /\ cleared' = FALSE
  /\ IF supported
       THEN /\ isParsingFile' = TRUE
            /\ fileName' = FileName
            /\ error' = Null
            /\ parses' = parses + 1
       ELSE /\ isParsingFile' = FALSE
            /\ fileName' = Null
            /\ error' = Unsupported
            /\ parses' = parses
  /\ UNCHANGED <<reply, apiKey, isApiKeyModalOpen, apiKeyError, isLoading, progress,
                 pc, timers, earlier>>

\* handleFileChange from the end of the parse on
ParseCompletes(parsed) ==
  /\ parses > 0
  /\ parses' = parses - 1
  /\ isParsingFile' = FALSE
  /\ IF parsed
       THEN /\ statementText' = Statement
            /\ UNCHANGED <<error, fileName>>
       ELSE /\ error' = ParseFailed
            /\ fileName' = Null
            /\ UNCHANGED statementText
  /\ UNCHANGED <<reply, resultVars, apiKey, isApiKeyModalOpen, apiKeyError,
                 isLoading, progress, pc, timers, earlier, cleared>>

\* clearFile; the Clear button is rendered while a file is named
ClearFile ==
  /\ fileName # Null
  /\ fileName' = Null
  /\ statementText' = <<>>
  /\ DropResult
  /\ error' = Null
  /\ cleared' = TRUE
  /\ UNCHANGED <<reply, apiKey, isApiKeyModalOpen, apiKeyError, isLoading, progress,
                 isParsingFile, pc, timers, parses, earlier>>

\* the Analyze button is disabled in these states (StatementInput.tsx 77)
AnalyzeDisabled ==
  isLoading \/ isParsingFile \/ Trim(statementText) = <<>> \/ apiKey = NoKey

\* a handleAnalyze that leaves the result of the last analysis in place
HandleAnalyzeKeepsResult ==
  IF Trim(statementText) = <<>>
    THEN /\ error' = PleaseProvide
         /\ UNCHANGED <<reply, resultVars, statementText, apiKey, isApiKeyModalOpen,
                        apiKeyError, isLoading, progress, isParsingFile, fileName,
                        pc, timers, parses, earlier, cleared>>
  ELSE IF apiKey = NoKey
    THEN /\ error' = KeyNotSet
         /\ isApiKeyModalOpen' = TRUE
         /\ UNCHANGED <<reply, resultVars, statementText, apiKey, apiKeyError,
                        isLoading, progress, isParsingFile, fileName, pc, timers,
                        parses, earlier, cleared>>
  ELSE /\ ~AnalyzeDisabled
       /\ isLoading' = TRUE
       /\ error' = Null
       /\ earlier' = analysisResult
       /\ progress' = Step(1)
       /\ pc' = "connecting"
       /\ reply' = <<>>
       /\ cleared' = FALSE
       /\ UNCHANGED <<resultVars, statementText, apiKey, isApiKeyModalOpen,
                      apiKeyError, isParsingFile, fileName, timers, parses>>

\* a handleAnalyze without the guard on the API key
HandleAnalyzeWithoutKeyGuard ==
  IF Trim(statementText) = <<>>
    THEN /\ error' = PleaseProvide
         /\ UNCHANGED <<reply, resultVars, statementText, apiKey, isApiKeyModalOpen,
                        apiKeyError, isLoading, progress, isParsingFile, fileName,
                        pc, timers, parses, earlier, cleared>>
  ELSE /\ ~isLoading
       /\ ~isParsingFile
       /\ isLoading' = TRUE
       /\ error' = Null
       /\ earlier' = analysisResult
       /\ DropResult
       /\ progress' = Step(1)
       /\ pc' = "connecting"
       /\ reply' = <<>>
       /\ cleared' = FALSE
       /\ UNCHANGED <<statementText, apiKey, isApiKeyModalOpen, apiKeyError,
                      isParsingFile, fileName, timers, parses>>

\* handleAnalyze up to its first await.  Its two guards are exercised in
\* every state they apply to; past them it runs where the button allows.
HandleAnalyze ==
  IF Trim(statementText) = <<>>
    THEN /\ error' = PleaseProvide
         /\ UNCHANGED <<reply, resultVars, statementText, apiKey, isApiKeyModalOpen,
                        apiKeyError, isLoading, progress, isParsingFile, fileName,
                        pc, timers, parses, earlier, cleared>>
  ELSE IF apiKey = NoKey
    THEN /\ error' = KeyNotSet
         /\ isApiKeyModalOpen' = TRUE
         /\ UNCHANGED <<reply, resultVars, statementText, apiKey, apiKeyError,
                        isLoading, progress, isParsingFile, fileName, pc, timers,
                        parses, earlier, cleared>>
  ELSE /\ ~AnalyzeDisabled
       /\ isLoading' = TRUE
       /\ error' = Null
       /\ earlier' = analysisResult
       /\ DropResult
       /\ progress' = Step(1)
       /\ pc' = "connecting"
       /\ reply' = <<>>
       /\ cleared' = FALSE
       /\ UNCHANGED <<statementText, apiKey, isApiKeyModalOpen, apiKeyError,
                      isParsingFile, fileName, timers, parses>>

\* handleAnalyze after the 300 ms wait: step 2, the model is called and the
\* three callbacks are scheduled
Connected ==
  /\ pc = "connecting"
  /\ progress' = Step(2)
  /\ timers' = [k \in TimerSteps |->
                  IF timers[k] < MaxPending THEN timers[k] + 1 ELSE timers[k]]
  /\ pc' = "calling"
  /\ UNCHANGED <<reply, resultVars, statementText, apiKey, isApiKeyModalOpen,
                 apiKeyError, error, isLoading, isParsingFile, fileName, parses,
                 earlier, cleared>>

\* a simulated-progress callback runs: p => p && p.step < k ? step k : p
TimerFires(k) ==
  /\ timers[k] > 0
  /\ timers' = [timers EXCEPT ![k] = @ - 1]
  /\ progress' = IF progress # Null /\ progress.step < k THEN Step(k) ELSE progress
  /\ UNCHANGED <<reply, resultVars, statementText, apiKey, isApiKeyModalOpen,
                 apiKeyError, error, isLoading, isParsingFile, fileName, pc, parses,
                 earlier, cleared>>

\* the model call resolves with a reply: step 6 and the 500 ms wait
ModelReturns(ts) ==
  /\ pc = "calling"
  /\ reply' = ts
  /\ progress' = Step(6)
  /\ pc' = "receiving"
  /\ UNCHANGED <<resultVars, statementText, apiKey, isApiKeyModalOpen, apiKeyError,
                 error, isLoading, isParsingFile, fileName, timers, parses, earlier,
                 cleared>>

\* the catch block of handleAnalyze
CatchError(thrown) ==
  IF thrown.isError
    THEN IF Includes(thrown.message, ApiKeyNotValid)
           THEN /\ error' = KeyInvalid
                /\ apiKeyError' = KeyInvalid
                /\ isApiKeyModalOpen' = TRUE
           ELSE /\ error' = Text(thrown.message)
                /\ UNCHANGED <<apiKeyError, isApiKeyModalOpen>>
    ELSE /\ error' = UnknownError
         /\ UNCHANGED <<apiKeyError, isApiKeyModalOpen>>

\* a throw handled without the finally block
ModelThrowsWithoutFinally(raw) ==
  /\ pc = "calling"
  /\ CatchError(AnalyzeStatementError(raw))
  /\ pc' = "idle"
  /\ UNCHANGED <<reply, resultVars, statementText, apiKey, isParsingFile, fileName,
                 timers, parses, earlier, cleared, isLoading, progress>>

\* the model call throws: the catch block, then the finally block
ModelThrows(raw) ==
  /\ pc = "calling"
  /\ CatchError(AnalyzeStatementError(raw))
  /\ isLoading' = FALSE
  /\ progress' = Null
  /\ pc' = "idle"
  /\ UNCHANGED <<reply, resultVars, statementText, apiKey, isParsingFile, fileName,
                 timers, parses, earlier, cleared>>

\* handleAnalyze after the first 500 ms wait: a reply without transactions
\* ends the run, any other is set and step 7 shown
ResponseParsed ==
  /\ pc = "receiving"
  /\ ShowResult(AppResult(reply))
  /\ IF Len(reply) = 0
       THEN /\ error' = NoTransactions
            /\ isLoading' = FALSE
            /\ progress' = Null
            /\ pc' = "idle"
       ELSE /\ progress' = Step(7)
            /\ pc' = "summarising"
            /\ UNCHANGED <<error, isLoading>>
  /\ UNCHANGED <<reply, statementText, apiKey, isApiKeyModalOpen, apiKeyError,
                 isParsingFile, fileName, timers, parses, earlier, cleared>>

\* handleAnalyze after the second 500 ms wait: the finally block
Finished ==
  /\ pc = "summarising"
  /\ isLoading' = FALSE
  /\ progress' = Null
  /\ pc' = "idle"
  /\ UNCHANGED <<reply, resultVars, statementText, apiKey, isApiKeyModalOpen,
                 apiKeyError, error, isParsingFile, fileName, timers, parses,
                 earlier, cleared>>

\* handleSaveApiKey, with the key typed into the modal
HandleSaveApiKey(tempApiKey) ==
  /\ isApiKeyModalOpen
  /\ IF Trim(tempApiKey) = <<>>
       THEN /\ apiKeyError' = KeyEmpty
            /\ UNCHANGED <<apiKey, isApiKeyModalOpen>>
       ELSE /\ apiKey' = tempApiKey
            /\ isApiKeyModalOpen' = FALSE
            /\ apiKeyError' = Null
  /\ UNCHANGED <<reply, resultVars, statementText, error, isLoading, progress,
                 isParsingFile, fileName, pc, timers, parses, earlier, cleared>>

\* Cancel in the modal, offered when a key is saved
CloseApiKeyModal ==
  /\ isApiKeyModalOpen
  /\ apiKey # NoKey
  /\ isApiKeyModalOpen' = FALSE
  /\ apiKeyError' = Null
  /\ UNCHANGED <<reply, resultVars, statementText, apiKey, error, isLoading,
                 progress, isParsingFile, fileName, pc, timers, parses, earlier,
                 cleared>>

\* the settings icon of the header
OpenSettings ==
  /\ ~isApiKeyModalOpen
  /\ isApiKeyModalOpen' = TRUE
  /\ UNCHANGED <<reply, resultVars, statementText, apiKey, apiKeyError, error,
                 isLoading, progress, isParsingFile, fileName, pc, timers, parses,
                 earlier, cleared>>

(***************************************************************************)
(* Specifications                                                          *)
(***************************************************************************)
\* aggregation over the replies that vary names, types, amounts and dates
NextAggregate ==
  \/ \E t \in AmountTransactions \cup DateTransactions : ComposeTransaction(t, MaxTx)
  \/ \E o \in OpeningBalances : ReceiveResult(o, Money(1300, 0))
  \/ StartAnalysis

SpecAggregate == Init /\ [][NextAggregate]_vars

\* balance verification over the replies that vary amounts, and every closing
\* balance
NextBalance ==
  \/ \E t \in AmountTransactions : ComposeTransaction(t, MaxTx)
  \/ \E o \in BalanceOpenings, c \in ClosingBalances : ReceiveResult(o, c)
  \/ StartAnalysis

SpecBalance == Init /\ [][NextBalance]_vars

\* the query layer on a displayed result
NextQuery ==
  \/ \E t \in QueryTransactions : ComposeTransaction(t, MaxTx)
  \/ \E o \in OpeningBalances : ReceiveResult(o, Money(1300, 0))
  \/ StartAnalysis
  \/ \E q \in SearchQueries : SetSearchQuery(q)
  \/ \E k \in SortKeys : RequestSort(k)

SpecQuery == Init /\ [][NextQuery]_vars

\* reconciliation against an expected-payments list
NextReconcile ==
  \/ \E t \in FewTransactions : ComposeTransaction(t, MaxTx)
  \/ \E o \in OpeningBalances : ReceiveResult(o, Money(1300, 0))
  \/ StartAnalysis
  \/ \E l \in ExpectedLists : LoadExpectedPayments(l)
  \/ ClearExpectedPayments

SpecReconcile == Init /\ [][NextReconcile]_vars

\* aggregation over the replies whose amounts have decimal places
NextFraction ==
  \/ \E t \in FractionTransactions : ComposeTransaction(t, MaxFractionTx)
  \/ \E o \in OpeningBalances : ReceiveResult(o, Money(1300, 0))
  \/ StartAnalysis

SpecFraction == Init /\ [][NextFraction]_vars

\* reconciliation against sheets with different columns
NextSheet ==
  \/ \E t \in SheetTransactions : ComposeTransaction(t, MaxTx)
  \/ \E o \in OpeningBalances : ReceiveResult(o, Money(1300, 0))
  \/ StartAnalysis
  \/ \E l \in SheetLists : LoadExpectedPayments(l)
  \/ ClearExpectedPayments

SpecSheet == Init /\ [][NextSheet]_vars

\* the App: analyses, their timers, the file input and the modal
NextApp ==
  \/ \E text \in StatementTexts : TypeText(text)
  \/ \E supported \in BOOLEAN : HandleFileChange(supported)
  \/ \E parsed \in BOOLEAN : ParseCompletes(parsed)
  \/ ClearFile
  \/ HandleAnalyze
  \/ Connected
  \/ \E k \in TimerSteps : TimerFires(k)
  \/ \E ts \in AppReplies : ModelReturns(ts)
  \/ \E raw \in RawErrors : ModelThrows(raw)
  \/ ResponseParsed
  \/ Finished
  \/ \E tempApiKey \in TypedKeys : HandleSaveApiKey(tempApiKey)
  \/ CloseApiKeyModal
  \/ OpenSettings

SpecApp == InitMounted /\ [][NextApp]_vars

\* the App under the scheduling of the browser: a timeout that was set runs
\* out, and the model call returns or throws
SpecAppFair ==
  /\ SpecApp
  /\ WF_vars(Connected)
  /\ WF_vars((\E ts \in AppReplies : ModelReturns(ts))
               \/ (\E raw \in RawErrors : ModelThrows(raw)))
  /\ WF_vars(ResponseParsed)
  /\ WF_vars(Finished)

(***************************************************************************)
(* Properties                                                              *)
(*                                                                         *)
(* The sums the properties compare against are taken over index sets of    *)
(* the transaction list, independently of the folds above.                 *)
(***************************************************************************)
RECURSIVE SumAmounts(_, _)
\* the amounts of the transactions of ts at the positions I, added up in the
\* order of the list
SumAmounts(ts, I) ==
  IF I = {} THEN Zero
  ELSE LET i == Highest(I)
       IN  Plus(SumAmounts(ts, I \ {i}), ts[i].amount)

\* the positions of the transactions of a client and a type
PositionsOf(ts, name, type) ==
  {i \in 1..Len(ts) : ts[i].clientName = name /\ ts[i].type = type}

\* the summary row a client's transactions call for
ExpectedSummary(ts, name) ==
  LET cr == PositionsOf(ts, name, "credit")
      db == PositionsOf(ts, name, "debit")
  IN  [clientName  |-> name,
       totalCredit |-> SumAmounts(ts, cr), creditCount |-> Cardinality(cr),
       totalDebit  |-> SumAmounts(ts, db), debitCount  |-> Cardinality(db),
       netTotal    |-> Minus(SumAmounts(ts, cr), SumAmounts(ts, db))]

\* the rows of a list, as a set
RowsOf(items) == {items[i] : i \in 1..Len(items)}

\* the client names of a transaction list
NamesOf(ts) == {ts[i].clientName : i \in 1..Len(ts)}

\* the dates of the model that are YYYY-MM-DD
WellFormedDates == {Jan15, Jan31, Feb01}

\* C1: aggregation returns exactly one ClientSummary per distinct clientName of
\* the list, for any client-name string, holding the sums and counts of that
\* client's credits and debits and netTotal = totalCredit - totalDebit; an
\* amount of 0 adds 1 to the count and 0 to the total.
C1_OneSummaryPerClient ==
  analysisResult # Null =>
    LET ts == analysisResult.transactions
    IN  /\ Len(clientSummaries) = Cardinality(NamesOf(ts))
        /\ RowsOf(clientSummaries) = {ExpectedSummary(ts, n) : n \in NamesOf(ts)}

\* C2: a transaction whose date is not YYYY-MM-DD (empty and missing included)
\* contributes to no trend row, and is still counted in its client's summary
\* and so in the grand totals of the balance verification.
C2_InvalidDateStillSummarised ==
  analysisResult # Null =>
    LET ts    == analysisResult.transactions
        valid == SelectSeq(ts, LAMBDA t : t.date \in WellFormedDates)
    IN  /\ RowsOf(monthlyTrends) = RowsOf(Trends(valid))
        /\ \A i \in 1..Len(ts) :
             ts[i].date \notin WellFormedDates =>
               /\ ExpectedSummary(ts, ts[i].clientName) \in RowsOf(clientSummaries)
               /\ fullGrandTotals.totalCredit
                    = SumAmounts(ts, {k \in 1..Len(ts) : ts[k].type = "credit"})
               /\ fullGrandTotals.totalDebit
                    = SumAmounts(ts, {k \in 1..Len(ts) : ts[k].type = "debit"})

\* the positions of the well-dated transactions of a client in a month
TrendPositions(ts, name, month, type) ==
  {i \in 1..Len(ts) : /\ ts[i].date \in WellFormedDates
                      /\ ts[i].clientName = name
                      /\ SubSeq(ts[i].date, 1, 7) = month
                      /\ ts[i].type = type}

\* the trend row the well-dated transactions of a client in a month call for
ExpectedTrend(ts, name, month) ==
  LET cr == TrendPositions(ts, name, month, "credit")
      db == TrendPositions(ts, name, month, "debit")
  IN  [clientName  |-> name, month |-> month,
       totalCredit |-> SumAmounts(ts, cr),
       totalDebit  |-> SumAmounts(ts, db),
       netChange   |-> Minus(SumAmounts(ts, cr), SumAmounts(ts, db))]

\* the (clientName, month) pairs of the well-dated transactions
TrendPairs(ts) ==
  {<<ts[i].clientName, SubSeq(ts[i].date, 1, 7)>> :
     i \in {k \in 1..Len(ts) : ts[k].date \in WellFormedDates}}

\* C3: the trends hold exactly one row per distinct pair (clientName, first 7
\* characters of the date) among the well-dated transactions, with the sums of
\* the pair's credits and debits and netChange = totalCredit - totalDebit.
C3_OneTrendPerClientMonth ==
  analysisResult # Null =>
    LET ts == analysisResult.transactions
    IN  /\ Len(monthlyTrends) = Cardinality(TrendPairs(ts))
        /\ RowsOf(monthlyTrends)
             = {ExpectedTrend(ts, p[1], p[2]) : p \in TrendPairs(ts)}

\* C3 witness: two well-dated transactions of one client in one month on
\* different days share a row, and the same client has a row for another month
C3_Witness ==
  /\ analysisResult # Null
  /\ Len(analysisResult.transactions) = 2
  /\ analysisResult.transactions[1].clientName = AcmeSp
  /\ analysisResult.transactions[2].clientName = AcmeSp
  /\ analysisResult.transactions[1].date = Jan15
  /\ analysisResult.transactions[2].date = Jan31
  /\ Len(monthlyTrends) = 1
  /\ monthlyTrends[1].totalCredit = Money(1000, 0)

RECURSIVE SumField(_, _, _)
\* an amount field of the rows of items at the positions I, added up in the
\* order of the list
SumField(items, I, field) ==
  IF I = {} THEN Zero
  ELSE LET i == Highest(I)
       IN  Plus(SumField(items, I \ {i}, field), items[i][field])

\* C4: calculatedClosing = openingBalance + sum of totalCredit - sum of
\* totalDebit over the summaries, difference = calculatedClosing -
\* closingBalance, isMatch exactly when |difference| < 0.01.  Opening 1000,
\* credits 500, debits 200: closing 1300 gives difference 0 and a match,
\* closing 1250 gives difference 50 and no match.
C4_BalanceVerification ==
  analysisResult # Null =>
    LET all     == 1..Len(clientSummaries)
        credits == SumField(clientSummaries, all, "totalCredit")
        debits  == SumField(clientSummaries, all, "totalDebit")
        closing == analysisResult.closingBalance
        calc    == Minus(Plus(analysisResult.openingBalance, credits), debits)
        diff    == Minus(calc, closing)
        bv      == balanceVerification
    IN  /\ bv.calculatedClosing = calc
        /\ bv.difference = diff
        /\ bv.isMatch <=> (diff # Tolerance /\ diff # Negate(Tolerance)
                            /\ Less(Negate(Tolerance), diff) /\ Less(diff, Tolerance))
        /\ (/\ analysisResult.openingBalance = Money(1000, 0)
            /\ credits = Money(500, 0)
            /\ debits = Money(200, 0))
           => /\ closing = Money(1300, 0) => bv.difference = Zero /\ bv.isMatch
              /\ closing = Money(1250, 0) =>
                   bv.difference = Money(50, 0) /\ ~bv.isMatch

\* C4 witness: the reply is one credit of 500 and one debit of 200, opening
\* 1000 and closing 1300, and the verification matches with difference 0
C4_Witness ==
  /\ analysisResult # Null
  /\ Len(analysisResult.transactions) = 2
  /\ \E i, j \in 1..2 :
       /\ analysisResult.transactions[i].type = "credit"
       /\ analysisResult.transactions[i].amount = Money(500, 0)
       /\ analysisResult.transactions[j].type = "debit"
       /\ analysisResult.transactions[j].amount = Money(200, 0)
  /\ analysisResult.openingBalance = Money(1000, 0)
  /\ analysisResult.closingBalance = Money(1300, 0)
  /\ balanceVerification.difference = Zero
  /\ balanceVerification.isMatch

\* C5: the verification uses the totals of all summaries: while a result is
\* displayed, no change of the search query or of the sort changes
\* calculatedClosing, difference or isMatch.  The verification is at every
\* moment the one worked out from the result and all of its summaries, with no
\* part for the query or the sort, and no step that keeps the result changes
\* the summaries.
C5_VerificationIgnoresQuery ==
  /\ [](analysisResult # Null =>
          LET all     == 1..Len(clientSummaries)
              credits == SumField(clientSummaries, all, "totalCredit")
              debits  == SumField(clientSummaries, all, "totalDebit")
              calc    == Minus(Plus(analysisResult.openingBalance, credits), debits)
              diff    == Minus(calc, analysisResult.closingBalance)
          IN  balanceVerification
                = [calculatedClosing |-> calc, difference |-> diff,
                   isMatch |-> Less(Abs(diff), Tolerance)])
  /\ [][(analysisResult # Null /\ analysisResult' = analysisResult)
         => clientSummaries' = clientSummaries]_vars

\* C5 witness: a displayed result whose search query hides a summary with
\* money in it, under a sort other than the initial one
C5_Witness ==
  /\ analysisResult # Null
  /\ searchQuery # <<>>
  /\ sortConfig # InitialSortConfig
  /\ Len(filteredClientSummaries) < Len(clientSummaries)
  /\ filteredGrandTotals.totalCredit # fullGrandTotals.totalCredit

\* the rows of the reconciliation and the list they were computed from
statusRows   == paymentStatuses[1]
expectedRows == expectedPayments[1]

\* C6: each row has exactly one status, by the first rule that applies:
\* paidAmount = 0 Not Paid; |paidAmount - expectedAmount| < 0.01 Paid;
\* paidAmount - expectedAmount < 0 Partial Payment; otherwise Payment Exceeded.
\* A paidAmount of 0 is Not Paid also when the expected amount is below 0.01.
C6_StatusByFirstRule ==
  paymentStatuses # NoList =>
    \A i \in 1..Len(statusRows) :
      LET p    == statusRows[i].paidAmount
          d    == Minus(statusRows[i].paidAmount, statusRows[i].expectedAmount)
          near == Less(Negate(Tolerance), d) /\ Less(d, Tolerance)
      IN  /\ p = Zero => statusRows[i].status = "Not Paid"
          /\ (p # Zero /\ near) => statusRows[i].status = "Paid"
          /\ (p # Zero /\ ~near /\ Less(d, Zero))
               => statusRows[i].status = "Partial Payment"
          /\ (p # Zero /\ ~near /\ ~Less(d, Zero))
               => statusRows[i].status = "Payment Exceeded"

\* C6 witness: a client with a summary but no credit, expected to pay 0.005,
\* is Not Paid although 0 is within the tolerance of the expected amount
C6_Witness ==
  /\ paymentStatuses # NoList
  /\ \E i \in 1..Len(statusRows) :
       /\ MatchIndex(clientSummaries, expectedRows[i].clientName) # 0
       /\ statusRows[i].paidAmount = Zero
       /\ statusRows[i].expectedAmount = Money(0, 1)
       /\ statusRows[i].status = "Not Paid"

\* the summaries with every debit taken out
WithoutDebits(summaries) ==
  [i \in 1..Len(summaries) |->
     [summaries[i] EXCEPT !.totalDebit = Zero, !.debitCount = 0,
                          !.netTotal = summaries[i].totalCredit]]

\* C7: paidAmount is the totalCredit of the summary that matches the expected
\* payment's name and 0 when none matches; the summaries' totalDebit and
\* netTotal have no influence on the rows.
C7_PaidIsTotalCredit ==
  paymentStatuses # NoList =>
    /\ \A i \in 1..Len(statusRows) :
         LET k == MatchIndex(clientSummaries, expectedRows[i].clientName)
         IN  statusRows[i].paidAmount
               = IF k = 0 THEN Zero ELSE clientSummaries[k].totalCredit
    /\ Reconcile(WithoutDebits(clientSummaries), expectedRows) = statusRows

\* C7 witness: a row paid from a summary that also has debits
C7_Witness ==
  /\ paymentStatuses # NoList
  /\ \E i \in 1..Len(statusRows) :
       LET k == MatchIndex(clientSummaries, expectedRows[i].clientName)
       IN  /\ k # 0
           /\ Less(Zero, clientSummaries[k].totalDebit)
           /\ Less(Zero, clientSummaries[k].totalCredit)
           /\ statusRows[i].paidAmount = clientSummaries[k].totalCredit

\* the names of the model as they read without case and outer white space
Canonical(name) ==
  IF name \in {AcmeSp, acme, ACME} THEN <<"a","c","m","e">>
  ELSE IF name = Ghost THEN <<"g","h","o","s","t">>
  ELSE name

\* the summaries whose name equals a name without case and outer white space
Matching(summaries, name) ==
  {k \in 1..Len(summaries) : Canonical(summaries[k].clientName) = Canonical(name)}

\* C8: one row per expected payment, in the order of the expected list; a
\* payment with no matching summary is kept, as Not Paid with paidAmount 0.
C8_OneRowPerExpected ==
  paymentStatuses # NoList =>
    /\ Len(statusRows) = Len(expectedRows)
    /\ \A i \in 1..Len(expectedRows) :
         /\ statusRows[i].clientName = expectedRows[i].clientName
         /\ statusRows[i].expectedAmount = expectedRows[i].amount
         /\ Matching(clientSummaries, expectedRows[i].clientName) = {}
              => /\ statusRows[i].status = "Not Paid"
                 /\ statusRows[i].paidAmount = Zero

\* C8 witness: an unmatched payment first and a matched one second, each in
\* its place
C8_Witness ==
  /\ paymentStatuses # NoList
  /\ Len(statusRows) = 2
  /\ statusRows[1].clientName = Ghost
  /\ statusRows[1].status = "Not Paid"
  /\ Less(statusRows[1].difference, Zero)
  /\ statusRows[2].clientName = ACME
  /\ Less(Zero, statusRows[2].paidAmount)

\* C9: an expected payment matches a summary exactly when the names are equal
\* after trimming and lower-casing: its paidAmount is then the totalCredit of
\* such a summary, and 0 when there is none.  "ACME" matches "Acme ".
C9_MatchIgnoresCaseAndSpace ==
  paymentStatuses # NoList =>
    \A i \in 1..Len(expectedRows) :
      LET hits == Matching(clientSummaries, expectedRows[i].clientName)
      IN  /\ hits = {} => statusRows[i].paidAmount = Zero
          /\ hits # {} => \E k \in hits :
                            statusRows[i].paidAmount = clientSummaries[k].totalCredit
          /\ (expectedRows[i].clientName = ACME /\ Len(clientSummaries) = 1
                /\ clientSummaries[1].clientName = AcmeSp)
               => statusRows[i].paidAmount = clientSummaries[1].totalCredit

\* C9 witness: "ACME" is paid from the only summary, named "Acme "
C9_Witness ==
  /\ paymentStatuses # NoList
  /\ Len(clientSummaries) = 1
  /\ clientSummaries[1].clientName = AcmeSp
  /\ \E i \in 1..Len(expectedRows) :
       /\ expectedRows[i].clientName = ACME
       /\ statusRows[i].paidAmount = Money(1000, 0)

\* C10: every row has expectedAmount = the payment's amount and difference =
\* paidAmount - expectedAmount; with 1000 credited, expected 1000, 1500 and 700
\* give differences 0, -500 and 300.
C10_DifferenceAlwaysReported ==
  paymentStatuses # NoList =>
    \A i \in 1..Len(statusRows) :
      /\ statusRows[i].expectedAmount = expectedRows[i].amount
      /\ statusRows[i].difference
           = Minus(statusRows[i].paidAmount, expectedRows[i].amount)
      /\ statusRows[i].paidAmount = Money(1000, 0) =>
           /\ expectedRows[i].amount = Money(1000, 0) => statusRows[i].difference = Zero
           /\ expectedRows[i].amount = Money(1500, 0)
                => statusRows[i].difference = Negate(Money(500, 0))
           /\ expectedRows[i].amount = Money(700, 0)
                => statusRows[i].difference = Money(300, 0)

\* C10 witness: 1000 credited against 1500 and 700 expected, and an unmatched
\* row that still reports its difference
C10_Witness ==
  /\ paymentStatuses # NoList
  /\ \E i, j \in 1..Len(statusRows) :
       /\ statusRows[i].paidAmount = Money(1000, 0)
       /\ statusRows[i].expectedAmount = Money(1500, 0)
       /\ statusRows[i].status = "Partial Payment"
       /\ statusRows[i].difference = Negate(Money(500, 0))
       /\ statusRows[j].paidAmount = Money(1000, 0)
       /\ statusRows[j].expectedAmount = Money(700, 0)
       /\ statusRows[j].status = "Payment Exceeded"
       /\ statusRows[j].difference = Money(300, 0)

\* the sublist of ts at the positions I, in the order of ts
SubList(ts, I) ==
  [k \in 1..Cardinality(I) |->
     ts[CHOOSE i \in I : Cardinality({j \in I : j < i}) = k - 1]]

\* the summary of a client in a list of summaries, all zeros when it has none
SummaryOf(summaries, name) ==
  IF \E i \in 1..Len(summaries) : summaries[i].clientName = name
    THEN summaries[CHOOSE i \in 1..Len(summaries) : summaries[i].clientName = name]
    ELSE NewSummary(name)

\* two summaries of one client added field by field
AddSummaries(a, b) ==
  [clientName  |-> a.clientName,
   totalCredit |-> Plus(a.totalCredit, b.totalCredit),
   creditCount |-> a.creditCount + b.creditCount,
   totalDebit  |-> Plus(a.totalDebit, b.totalDebit),
   debitCount  |-> a.debitCount + b.debitCount,
   netTotal    |-> Plus(a.netTotal, b.netTotal)]

\* C11: additivity.  For every split of the transaction list into two
\* sublists, the summaries of the two sublists, added field by field per client
\* (a client absent from a sublist counting as all zeros), give the totalCredit,
\* creditCount, totalDebit, debitCount and netTotal of the summaries of the
\* whole list.
C11_Additivity ==
  analysisResult # Null =>
    LET ts  == analysisResult.transactions
        all == 1..Len(ts)
    IN  \A I \in SUBSET all : \A n \in NamesOf(ts) :
          AddSummaries(SummaryOf(Summaries(SubList(ts, I)), n),
                       SummaryOf(Summaries(SubList(ts, all \ I)), n))
            = SummaryOf(clientSummaries, n)

\* the orders of the positions 1..n
OrdersOf(n) ==
  {f \in [1..n -> 1..n] : \A i, j \in 1..n : f[i] = f[j] => i = j}

\* the list ts in the order f
Permuted(ts, f) == [i \in 1..Len(ts) |-> ts[f[i]]]

\* C12: aggregation is order-independent.  For every permutation of the
\* transaction list the client summaries, as a sorted list, and the set of the
\* monthly trend rows are those of the list itself.
C12_OrderIndependent ==
  analysisResult # Null =>
    LET ts == analysisResult.transactions
    IN  \A f \in OrdersOf(Len(ts)) :
          /\ Summaries(Permuted(ts, f)) = clientSummaries
          /\ RowsOf(Trends(Permuted(ts, f))) = RowsOf(monthlyTrends)

RECURSIVE SumCounts(_, _, _)
\* a count field of the rows of items at the positions I, added up
SumCounts(items, I, field) ==
  IF I = {} THEN 0
  ELSE LET i == Highest(I)
       IN  SumCounts(items, I \ {i}, field) + items[i][field]

\* the summaries with the running netTotal and those with the final pass are
\* the same rows
AggregatorsAgreeOnSummaries ==
  analysisResult # Null =>
    RowsOf(DashboardSummaries(analysisResult.transactions)) = RowsOf(clientSummaries)

\* C13: the two aggregators agree.  The summaries with netTotal recomputed
\* after every transaction equal field by field those with netTotal set in a
\* final pass, and the dashboard's directly accumulated totalCreditAmount,
\* totalDebitAmount, totalCreditCount and totalDebitCount equal the sums of
\* totalCredit, totalDebit, creditCount and debitCount over those summaries.
C13_AggregatorsAgree ==
  analysisResult # Null =>
    LET ts   == analysisResult.transactions
        rows == DashboardSummaries(ts)
        all  == 1..Len(rows)
        d    == DashboardTotals(ts)
    IN  /\ RowsOf(rows) = RowsOf(clientSummaries)
        /\ d.totalCreditAmount = SumField(rows, all, "totalCredit")
        /\ d.totalDebitAmount = SumField(rows, all, "totalDebit")
        /\ d.totalCreditCount = SumCounts(rows, all, "creditCount")
        /\ d.totalDebitCount = SumCounts(rows, all, "debitCount")

\* the client names of the model in ascending locale order: a name comes
\* before the names it is a prefix of, and the space before the bar
NamesAscending == <<acme, AcmeSp, acmePipe, constructor>>

\* the place of a name in that order
NameRank(name) == CHOOSE i \in 1..Len(NamesAscending) : NamesAscending[i] = name

\* C14: the client summaries are sorted ascending by clientName and no two
\* rows have the same name, whatever the list and the order of its
\* transactions.
C14_SummariesSorted ==
  analysisResult # Null =>
    \A i, j \in 1..Len(clientSummaries) :
      i < j => NameRank(clientSummaries[i].clientName)
                 < NameRank(clientSummaries[j].clientName)

\* C14 witness: the reply names "Acme " before "acme", and the summaries
\* have "acme" before "Acme "
C14_Witness ==
  /\ analysisResult # Null
  /\ Len(analysisResult.transactions) = 2
  /\ analysisResult.transactions[1].clientName = AcmeSp
  /\ analysisResult.transactions[2].clientName = acme
  /\ Len(clientSummaries) = 2
  /\ clientSummaries[1].clientName = acme
  /\ clientSummaries[2].clientName = AcmeSp

\* two characters that are the same but for the case of a letter
SameLetter(c, d) ==
  \/ c = d
  \/ \E i \in 1..26 : {c, d} = {Upper[i], Lower[i]}

\* the query occurs in the name at some offset, letters compared without case
Occurs(query, name) ==
  \E off \in 0..(Len(name) - Len(query)) :
    \A k \in 1..Len(query) : SameLetter(name[off + k], query[k])

\* the positions of the items whose clientName holds the query
Passing(items, query) ==
  {i \in 1..Len(items) : Occurs(query, items[i].clientName)}

\* C15: the filter keeps exactly the items whose lower-cased clientName
\* contains the lower-cased query, in their original relative order; the empty
\* query returns the items unchanged; the one query is applied to the summaries
\* and to the trends.
C15_FilterBySubstring ==
  analysisResult # Null =>
    /\ filteredClientSummaries
         = SubList(clientSummaries, Passing(clientSummaries, searchQuery))
    /\ filteredMonthlyTrends
         = SubList(monthlyTrends, Passing(monthlyTrends, searchQuery))
    /\ searchQuery = <<>> =>
         /\ filteredClientSummaries = clientSummaries
         /\ filteredMonthlyTrends = monthlyTrends

\* C15 witness: the query "E " keeps "Acme " and drops "acme", in the
\* summaries and in the trends
C15_Witness ==
  /\ analysisResult # Null
  /\ searchQuery = eSp
  /\ Len(clientSummaries) = 2
  /\ Len(monthlyTrends) = 2
  /\ Len(filteredClientSummaries) = 1
  /\ filteredClientSummaries[1].clientName = AcmeSp
  /\ Len(filteredMonthlyTrends) = 1
  /\ filteredMonthlyTrends[1].clientName = AcmeSp

\* the client names and the months of the model as < orders them (by code
\* unit: upper case before lower case, a name before the names it begins)
NamesByCodeUnit == <<AcmeSp, acme, acmePipe, constructor>>
MonthsAscending == <<SubSeq(Jan15, 1, 7), SubSeq(Feb01, 1, 7)>>

\* the place of a value in a list of distinct values
PlaceIn(list, v) == CHOOSE i \in 1..Len(list) : list[i] = v

\* row a comes strictly before row b in the order of a key
KeyBefore(a, b, key) ==
  IF key = "clientName"
    THEN PlaceIn(NamesByCodeUnit, a.clientName) < PlaceIn(NamesByCodeUnit, b.clientName)
  ELSE IF key = "month"
    THEN PlaceIn(MonthsAscending, a.month) < PlaceIn(MonthsAscending, b.month)
  ELSE Less(a[key], b[key])

\* rows a and b tie on a key
KeyTie(a, b, key) == ~KeyBefore(a, b, key) /\ ~KeyBefore(b, a, key)

\* C16: the sorted trends are a permutation of the filtered trends, non-
\* decreasing in the sort key when ascending and non-increasing when
\* descending; in both directions rows with equal key keep their relative order
\* from the filtered list; the lists the sort starts from are left as they
\* were.
C16_SortIsStablePermutation ==
  analysisResult # Null =>
    LET f   == filteredMonthlyTrends
        s   == sortedMonthlyTrends
        key == sortConfig.key
    IN  /\ Len(s) = Len(f)
        /\ RowsOf(s) = RowsOf(f)
        /\ \A i, j \in 1..Len(s) :
             i < j =>
               /\ sortConfig.direction = "ascending" => ~KeyBefore(s[j], s[i], key)
               /\ sortConfig.direction = "descending" => ~KeyBefore(s[i], s[j], key)
               /\ KeyTie(s[i], s[j], key) => PlaceIn(f, s[i]) < PlaceIn(f, s[j])
        /\ monthlyTrends = Trends(analysisResult.transactions)
        /\ f = SubList(monthlyTrends, Passing(monthlyTrends, searchQuery))

\* C16 witness: a descending sort on totalCredit that moves the second row of
\* the filtered trends to the top
C16_Witness ==
  /\ analysisResult # Null
  /\ sortConfig = [key |-> "totalCredit", direction |-> "descending"]
  /\ Len(filteredMonthlyTrends) = 2
  /\ Less(filteredMonthlyTrends[1].totalCredit, filteredMonthlyTrends[2].totalCredit)
  /\ sortedMonthlyTrends[1] = filteredMonthlyTrends[2]
  /\ sortedMonthlyTrends[2] = filteredMonthlyTrends[1]

\* a list back to front
Reverse(list) == [i \in 1..Len(list) |-> list[Len(list) + 1 - i]]

\* the filtered trends sorted on a key in a direction
SortedOn(key, direction) ==
  SortTrends(filteredMonthlyTrends, [key |-> key, direction |-> direction])

\* C17: on a key that no two rows of the list share a value of, the
\* descending sort is the exact reverse of the ascending sort; rows that tie on
\* the key keep their pre-sort relative order in both sorts.
C17_DescendingReversesAscending ==
  analysisResult # Null =>
    LET f == filteredMonthlyTrends
    IN  \A key \in SortKeys :
          LET asc  == SortedOn(key, "ascending")
              desc == SortedOn(key, "descending")
          IN  /\ (\A i, j \in 1..Len(f) : i # j => ~KeyTie(f[i], f[j], key))
                   => desc = Reverse(asc)
              /\ \A i, j \in 1..Len(f) :
                   (i < j /\ KeyTie(f[i], f[j], key)) =>
                     /\ PlaceIn(asc, f[i]) < PlaceIn(asc, f[j])
                     /\ PlaceIn(desc, f[i]) < PlaceIn(desc, f[j])

\* C17 witness: two rows of one month and two clients under the descending
\* sort on clientName: the sort shown is the reverse of the ascending one and
\* not the ascending one, and both sorts on month leave the pair as it was
C17_Witness ==
  /\ analysisResult # Null
  /\ sortConfig = [key |-> "clientName", direction |-> "descending"]
  /\ Len(filteredMonthlyTrends) = 2
  /\ filteredMonthlyTrends[1].month = filteredMonthlyTrends[2].month
  /\ filteredMonthlyTrends[1].clientName # filteredMonthlyTrends[2].clientName
  /\ sortedMonthlyTrends = Reverse(SortedOn("clientName", "ascending"))
  /\ sortedMonthlyTrends # SortedOn("clientName", "ascending")
  /\ SortedOn("month", "ascending") = filteredMonthlyTrends
  /\ SortedOn("month", "descending") = filteredMonthlyTrends

\* the five totals over the summaries at the positions I
TotalsOver(summaries, I) ==
  [totalCredit |-> SumField(summaries, I, "totalCredit"),
   creditCount |-> SumCounts(summaries, I, "creditCount"),
   totalDebit  |-> SumField(summaries, I, "totalDebit"),
   debitCount  |-> SumCounts(summaries, I, "debitCount"),
   netTotal    |-> SumField(summaries, I, "netTotal")]

\* C18: the displayed totals are a fresh reduction over exactly the summaries
\* that pass the current filter: totalCredit, creditCount, totalDebit,
\* debitCount and netTotal, each the sum of its field over the filtered
\* summaries; with the empty query they are the unfiltered grand totals.
C18_TotalsOverFiltered ==
  analysisResult # Null =>
    /\ filteredGrandTotals
         = TotalsOver(clientSummaries, Passing(clientSummaries, searchQuery))
    /\ searchQuery = <<>> =>
         /\ filteredGrandTotals
              = TotalsOver(clientSummaries, 1..Len(clientSummaries))
         /\ filteredGrandTotals.totalCredit = fullGrandTotals.totalCredit
         /\ filteredGrandTotals.totalDebit = fullGrandTotals.totalDebit

\* C18 witness: a query that keeps one of two summaries, both with money in
\* them: the totals are those of the one kept
C18_Witness ==
  /\ analysisResult # Null
  /\ searchQuery = eSp
  /\ Len(clientSummaries) = 2
  /\ Len(filteredClientSummaries) = 1
  /\ clientSummaries[1].totalCredit = Money(500, 0)
  /\ clientSummaries[2].totalDebit = Money(500, 0)
  /\ filteredGrandTotals
       = [totalCredit |-> Zero, creditCount |-> 0,
          totalDebit |-> Money(500, 0), debitCount |-> 1,
          netTotal |-> Negate(Money(500, 0))]

\* C19: click-to-sort.  requestSort(k) sets the sort to (k, descending)
\* exactly when the current sort is (k, ascending); in every other case
\* (another key is current, or k is current and descending) it sets the sort
\* to (k, ascending).
C19_RequestSortTransition ==
  [][\A k \in SortKeys :
       RequestSort(k) =>
         /\ sortConfig'.key = k
         /\ sortConfig'.direction = "descending"
              <=> sortConfig = [key |-> k, direction |-> "ascending"]
         /\ sortConfig'.direction = "ascending"
              <=> sortConfig # [key |-> k, direction |-> "ascending"]]_vars

\* C19 witness: the sort (clientName, descending), reached from the initial
\* (month, descending) by two clicks on clientName: the first starts at
\* ascending, the second flips it
C19_Witness ==
  /\ analysisResult # Null
  /\ sortConfig = [key |-> "clientName", direction |-> "descending"]

\* C20: the balance verification is null only while there is no analysis
\* result; once a result exists it is always produced, and with an empty list
\* of summaries calculatedClosing = openingBalance and
\* difference = openingBalance - closingBalance.
C20_VerificationNullOnlyWithoutResult ==
  /\ balanceVerification = Null <=> analysisResult = Null
  /\ (analysisResult # Null /\ Len(clientSummaries) = 0) =>
       /\ balanceVerification.calculatedClosing = analysisResult.openingBalance
       /\ balanceVerification.difference =
            Minus(analysisResult.openingBalance, analysisResult.closingBalance)

\* C20 witness: a result with no transactions, opening 1000 and closing 1250:
\* no summaries, and a verification of 1000 with difference -250
C20_Witness ==
  /\ analysisResult # Null
  /\ analysisResult.transactions = <<>>
  /\ clientSummaries = <<>>
  /\ analysisResult.openingBalance = Money(1000, 0)
  /\ analysisResult.closingBalance = Money(1250, 0)
  /\ balanceVerification # Null
  /\ balanceVerification.difference = Negate(Money(250, 0))
  /\ ~balanceVerification.isMatch

\* the fields reconcile puts on a row itself
AddedFields == {"clientName", "expectedAmount", "paidAmount", "status", "difference"}

\* the fields of an expected payment that are not its clientName and amount
ExtraFields(e) == DOMAIN e \ {"clientName", "amount"}

C23_ReconcileOnlyWhenBothAvailable ==
  /\ paymentStatuses # NoList
       <=> (expectedPayments # NoList /\ Len(clientSummaries) > 0)
  /\ paymentStatuses # NoList =>
       /\ paymentStatuses = Some(Reconcile(clientSummaries, expectedRows))
       /\ Len(statusRows) = Len(expectedRows)
       /\ StatusCounts(paymentStatuses).total = Len(expectedRows)
  /\ paymentStatuses = NoList =>
       /\ paymentStatuses # Some(<<>>)
       /\ FilteredPaymentStatuses(paymentStatuses, "All") = NoList
       /\ StatusCounts(paymentStatuses)
            = [paid |-> 0, notPaid |-> 0, partial |-> 0, exceeded |-> 0, total |-> 0]

\* C23 witness: an analysis result without any summary and a loaded list of
\* expected payments: reconciliation is skipped although there are rows to
\* reconcile
C23_Witness ==
  /\ analysisResult # Null
  /\ Len(clientSummaries) = 0
  /\ expectedPayments # NoList
  /\ Len(expectedRows) > 0
  /\ paymentStatuses = NoList

\* C21: when the analysed transaction list is empty, the client summaries and
\* the monthly trends are both empty and the empty list is not reported as an
\* error.
C21_EmptyListIsNoError ==
  (analysisResult # Null /\ Len(analysisResult.transactions) = 0) =>
    /\ clientSummaries = <<>>
    /\ monthlyTrends = <<>>
    /\ error # NoTransactions

\* C24: aggregation is recomputed from scratch on every analysis: after any
\* sequence of analyses the client summaries and monthly trends are the
\* aggregation of the transactions of the most recent result alone (and empty
\* while there is none): every client and month on display is one of that
\* result, and the counts add up to its number of transactions.
C24_RecomputedFromScratch ==
  /\ analysisResult = Null => (clientSummaries = <<>> /\ monthlyTrends = <<>>)
  /\ analysisResult # Null =>
       LET ts == analysisResult.transactions
       IN  /\ clientSummaries = Summaries(ts)
           /\ monthlyTrends = Trends(ts)
           /\ \A i \in 1..Len(clientSummaries) :
                 \E j \in 1..Len(ts) : ts[j].clientName = clientSummaries[i].clientName
           /\ \A i \in 1..Len(monthlyTrends) :
                 \E j \in 1..Len(ts) :
                   /\ ts[j].clientName = monthlyTrends[i].clientName
                   /\ MonthOf(ts[j].date) = monthlyTrends[i].month
           /\ SumCounts(clientSummaries, 1..Len(clientSummaries), "creditCount")
                + SumCounts(clientSummaries, 1..Len(clientSummaries), "debitCount")
                = Len(ts)

\* C24 witness: a finished analysis of one client that replaced a result of
\* two clients, with the one client on display
C24_Witness ==
  /\ pc = "idle"
  /\ earlier # Null
  /\ Len(earlier.transactions) = 2
  /\ analysisResult # Null
  /\ Len(analysisResult.transactions) = 1
  /\ Len(clientSummaries) = 1
  /\ clientSummaries[1].totalCredit = Money(500, 0)
  /\ clientSummaries[1].debitCount = 0

\* C25: while an analysis is running the displayed progress step never
\* decreases, under every interleaving of the simulated-progress timers with
\* the steps of the run, timers of an earlier run included.
C25_ProgressNeverDecreases ==
  [][(isLoading /\ isLoading' /\ progress # Null /\ progress' # Null)
       => progress'.step >= progress.step]_vars

\* C26: clearing is durable: after clearFile the statement text stays empty
\* and the analysis result stays null until the user types text, selects
\* another file or starts a new analysis.
C26_ClearIsDurable ==
  cleared => (statementText = <<>> /\ analysisResult = Null)

\* C27: every started analysis eventually ends with isLoading false and
\* progress null, whether the model call succeeds with transactions, succeeds
\* with none, or throws.
C27_AnalysisEnds ==
  (isLoading /\ pc # "idle") ~> (pc = "idle" /\ ~isLoading /\ progress = Null)

\* C27 witness: a run that ended in the catch block with timers of its own
\* still pending
C27_Witness ==
  /\ pc = "idle"
  /\ ~isLoading
  /\ progress = Null
  /\ error # Null
  /\ earlier # Null
  /\ \A k \in TimerSteps : timers[k] > 0

\* C28: a failed analysis never leaves an earlier result on display: when
\* handleAnalyze ends because the model call threw, analysisResult is null and
\* the error message is set, and when the error text contains
\* 'API key not valid' the API-key modal is open with its own error set.
C28_FailureShowsNoResult ==
  [][\A raw \in RawErrors :
       ModelThrows(raw) =>
         /\ analysisResult' = Null
         /\ clientSummaries' = <<>>
         /\ error' # Null
         /\ ~isLoading'
         /\ Includes(AnalyzeStatementError(raw).message, ApiKeyNotValid) =>
              /\ isApiKeyModalOpen'
              /\ apiKeyError' # Null]_vars

\* C28 witness: a run that replaced a result and ended on a rejected key
C28_Witness ==
  /\ pc = "idle"
  /\ earlier # Null
  /\ analysisResult = Null
  /\ error = KeyInvalid
  /\ apiKeyError = KeyInvalid
  /\ isApiKeyModalOpen

\* C29: handleAnalyze called with blank statement text or with no API key
\* makes no model call and leaves analysisResult, isLoading, progress and the
\* statement text unchanged; it only sets the error message, and for a
\* missing API key the API-key modal is open afterwards.
C29_GuardsOnlySetError ==
  [][(HandleAnalyze /\ (Trim(statementText) = <<>> \/ apiKey = NoKey)) =>
       /\ UNCHANGED <<reply, resultVars, statementText, apiKey, apiKeyError,
                      isLoading, progress, isParsingFile, fileName, pc, timers,
                      parses>>
       /\ error' \in {PleaseProvide, KeyNotSet}
       /\ Trim(statementText) = <<>> => error' = PleaseProvide
       /\ apiKey = NoKey => isApiKeyModalOpen'
       /\ apiKey # NoKey => isApiKeyModalOpen' = isApiKeyModalOpen]_vars

\* C29 witness: a statement and no key: the call has set the key message, and
\* nothing runs
C29_Witness ==
  /\ Trim(statementText) # <<>>
  /\ apiKey = NoKey
  /\ error = KeyNotSet
  /\ isApiKeyModalOpen
  /\ pc = "idle"
  /\ ~isLoading
  /\ progress = Null

\* C30: the sort configuration starts as (month, descending) and is non-null
\* in every reachable state: no sequence of header clicks, searches or new
\* analyses brings the trends table to the unsorted state.
C30_AlwaysSorted ==
  /\ sortConfig # Null
  /\ sortConfig.key \in SortKeys
  /\ sortConfig.direction \in {"ascending", "descending"}
  /\ analysisResult = Null => sortConfig = InitialSortConfig

\* C30 witness: a searched result two clicks away from the initial sort
C30_Witness ==
  /\ analysisResult # Null
  /\ searchQuery # <<>>
  /\ sortConfig = [key |-> "month", direction |-> "ascending"]

=============================================================================
